---- MODULE Spec2Model ----
(***************************************************************************)
(* HTTPStream (package node): a raft stream layer tunnelled through        *)
(* net/http.  ServeHTTP runs once per inbound request on its own           *)
(* goroutine, hijacks the connection and sends it on the unbuffered        *)
(* channel h.accepted; Accept receives from that channel; Close sets the   *)
(* plain bool h.closed.                                                    *)
(*                                                                         *)
(* h.closed is a plain field written by Close and read by Accept and       *)
(* ServeHTTP with no synchronisation.  Under the Go memory model a read    *)
(* that is not ordered after the write may observe either the write or     *)
(* the initial value, so a read of the flag is a choice from ReadClosed.   *)
(***************************************************************************)
EXTENDS Integers, Sequences, FiniteSets

\* Number of ServeHTTP invocations (one goroutine and one connection each).
NumRequests == 2
\* Number of Accept calls each Accept goroutine makes, one after the other:
\* enough to take every connection.
MaxAcceptCalls == NumRequests

\* Number of Dial calls.
NumDials == 2
\* Longest peer address passed to Dial, in characters.
MaxAddrLen == 2

Requests == 1..NumRequests
Dials == 1..NumDials
\* The goroutines that call Accept.
Acceptors == {"a1", "a2"}

\* Values of the request's Upgrade header; "" is an absent header
\* (Header.Get returns the empty string).
Upgrades == {"raft-0", "RAFT-0", ""}

VARIABLES
    addr,          \* h.addr
    closed,        \* h.closed
    close_err,     \* error returned by the last Close call, "none" before it
    observed,      \* Accept goroutines that have read h.closed = true
    stale,         \* invocations (srv) and Accept goroutines (acc) whose
                   \* latest read of h.closed missed a write already made
    sv_pc,         \* position of each ServeHTTP invocation
    upgrade,       \* r.Header.Get("Upgrade") of each request
    status,        \* HTTP status written to each request, 0 = none
    verify,        \* outcome of h.ca.VerifyHTTPRequest: "none", "ok", "err"
    owner,         \* who holds each connection
    deadlines,     \* deadlines still set on each connection
    acc_pc,        \* position of each Accept goroutine
    acc_ret,       \* result of the goroutine's last Accept call
    calls,         \* number of Accept calls the goroutine has made
    returned,      \* connections the goroutine's Accept calls returned
    http_served,   \* stats counter
    http_accepted, \* stats counter
    dial_pc,       \* position of each Dial call
    address,       \* the address argument of each Dial call
    target,        \* the address each Dial call dials
    attempts,      \* connection attempts (tls.DialWithDialer) of each call
    dconn,         \* the connection each Dial call opened, if any
    dial_ret,      \* what each Dial call returned
    http_dialed,   \* stats counter
    http_failed    \* stats counter

dialVars == <<dial_pc, address, target, attempts, dconn, dial_ret, http_dialed,
              http_failed>>

vars == <<addr, closed, close_err, observed, stale, sv_pc, upgrade, status,
          verify, owner, deadlines, acc_pc, acc_ret, calls, returned,
          http_served, http_accepted, dialVars>>

srvVars == <<sv_pc, upgrade, status, verify, owner, deadlines, http_served>>
accVars == <<acc_pc, acc_ret, calls, returned, http_accepted>>

\* The addr argument of NewHTTPStream.
LocalAddr == "10.0.0.1:4934"

\* State after NewHTTPStream: closed is the zero value, nothing is in flight.
\* The webserver has set read and write deadlines on every connection it owns.
Init ==
    /\ addr = LocalAddr
    /\ closed = FALSE
    /\ close_err = "none"
    /\ observed = {}
    /\ stale = [srv |-> {}, acc |-> {}]
    /\ sv_pc = [r \in Requests |-> "Idle"]
    /\ upgrade = [r \in Requests |-> ""]
    /\ status = [r \in Requests |-> 0]
    /\ verify = [r \in Requests |-> "none"]
    /\ owner = [r \in Requests |-> "httpserver"]
    /\ deadlines = [r \in Requests |-> {"read", "write"}]
    /\ acc_pc = [a \in Acceptors |-> "idle"]
    /\ acc_ret = [a \in Acceptors |-> "none"]
    /\ calls = [a \in Acceptors |-> 0]
    /\ returned = [a \in Acceptors |-> <<>>]
    /\ http_served = 0
    /\ http_accepted = 0
    /\ dial_pc = [d \in Dials |-> "idle"]
    /\ address = [d \in Dials |-> <<>>]
    /\ target = [d \in Dials |-> <<>>]
    /\ attempts = [d \in Dials |-> 0]
    /\ dconn = [d \in Dials |-> "none"]
    /\ dial_ret = [d \in Dials |-> "none"]
    /\ http_dialed = 0
    /\ http_failed = 0

\* The values a read of h.closed may yield.  sync: the reading goroutine has
\* already observed the write, so it cannot go back to the initial value.
ReadClosed(sync) ==
    IF closed THEN (IF sync THEN {TRUE} ELSE {TRUE, FALSE}) ELSE {FALSE}

\* Close returning an error when the listener is already closed, as
\* net.Listener implementations do.
Close_ErrIfClosed ==
    /\ closed' = TRUE
    /\ close_err' = IF closed THEN "err" ELSE "nil"
    /\ UNCHANGED <<addr, observed, stale, srvVars, accVars, dialVars>>

\* Close: h.closed = true; return nil.
Close ==
    /\ closed' = TRUE
    /\ close_err' = "nil"
    /\ UNCHANGED <<addr, observed, stale, srvVars, accVars, dialVars>>

\* http.Error(w, ..., code) followed by return: the invocation ends in `state`.
Reject(r, code, state) ==
    /\ status' = [status EXCEPT ![r] = code]
    /\ sv_pc' = [sv_pc EXCEPT ![r] = state]

\* The invocation moves on to its next gate without writing a response.
Pass(r, state) ==
    /\ sv_pc' = [sv_pc EXCEPT ![r] = state]
    /\ UNCHANGED status

\* The webserver invokes ServeHTTP for request r whose Upgrade header is u:
\* stats.CounterInc("http_served", 1); if h.closed { http.Error(503); return }
ServeHTTP(r, u) ==
    /\ sv_pc[r] = "Idle"
    /\ upgrade' = [upgrade EXCEPT ![r] = u]
    /\ http_served' = http_served + 1
    /\ \E c \in ReadClosed(FALSE) :
          /\ IF c THEN Reject(r, 503, "RejectedClosed")
                  ELSE Pass(r, "ProtocolCheck")
          /\ stale' = [stale EXCEPT !.srv = IF closed /\ ~c THEN @ \cup {r} ELSE @]
    /\ UNCHANGED <<addr, closed, close_err, dialVars, observed, verify, owner, deadlines, accVars>>

\* ProtocolCheck comparing the token without regard to case
\* (strings.EqualFold in place of !=).
ProtocolCheck_FoldCase(r) ==
    /\ sv_pc[r] = "ProtocolCheck"
    /\ IF upgrade[r] \notin {"raft-0", "RAFT-0"}
          THEN Reject(r, 400, "RejectedProtocol")
          ELSE Pass(r, "IdentityCheck")
    /\ UNCHANGED <<addr, closed, close_err, dialVars, observed, stale, upgrade, verify, owner, deadlines,
                   http_served, accVars>>

\* if upgrade != "raft-0" { http.Error(400); return }
ProtocolCheck(r) ==
    /\ sv_pc[r] = "ProtocolCheck"
    /\ IF upgrade[r] # "raft-0"
          THEN Reject(r, 400, "RejectedProtocol")
          ELSE Pass(r, "IdentityCheck")
    /\ UNCHANGED <<addr, closed, close_err, dialVars, observed, stale, upgrade, verify, owner, deadlines,
                   http_served, accVars>>

\* IdentityCheck treating a failed verification as fatal: it answers 401 and
\* shuts the listener down.
IdentityCheck_FailCloses(r, ok) ==
    /\ sv_pc[r] = "IdentityCheck"
    /\ verify' = [verify EXCEPT ![r] = IF ok THEN "ok" ELSE "err"]
    /\ IF ~ok
          THEN /\ Reject(r, 401, "RejectedAuth")
               /\ closed' = TRUE
          ELSE /\ Pass(r, "HijackCheck")
               /\ UNCHANGED closed
    /\ UNCHANGED <<addr, close_err, dialVars, observed, stale, upgrade, owner,
                   deadlines, http_served, accVars>>

\* IdentityCheck with the return after http.Error(401) missing: the response
\* is written and the invocation goes on to the hijack.
IdentityCheck_NoReturn(r, ok) ==
    /\ sv_pc[r] = "IdentityCheck"
    /\ verify' = [verify EXCEPT ![r] = IF ok THEN "ok" ELSE "err"]
    /\ status' = [status EXCEPT ![r] = IF ok THEN @ ELSE 401]
    /\ sv_pc' = [sv_pc EXCEPT ![r] = "HijackCheck"]
    /\ UNCHANGED <<addr, closed, close_err, dialVars, observed, stale, upgrade, owner, deadlines, http_served,
                   accVars>>

\* _, err := h.ca.VerifyHTTPRequest(r); if err != nil { http.Error(401); return }
\* ok: the CA collaborator's answer.
IdentityCheck(r, ok) ==
    /\ sv_pc[r] = "IdentityCheck"
    /\ verify' = [verify EXCEPT ![r] = IF ok THEN "ok" ELSE "err"]
    /\ IF ~ok
          THEN Reject(r, 401, "RejectedAuth")
          ELSE Pass(r, "HijackCheck")
    /\ UNCHANGED <<addr, closed, close_err, dialVars, observed, stale, upgrade, owner, deadlines, http_served,
                   accVars>>

\* hj, ok := w.(http.Hijacker); if !ok { http.Error(500); return }
HijackCheck(r, ok) ==
    /\ sv_pc[r] = "HijackCheck"
    /\ IF ~ok
          THEN Reject(r, 500, "RejectedNoHijack")
          ELSE Pass(r, "Hijack")
    /\ UNCHANGED <<addr, closed, close_err, dialVars, observed, stale, upgrade, verify, owner, deadlines,
                   http_served, accVars>>

\* Hijack with the return after http.Error(500) missing: the response is
\* written and the invocation goes on with the connection Hijack returned.
Hijack_NoReturn(r, ok) ==
    /\ sv_pc[r] = "Hijack"
    /\ status' = [status EXCEPT ![r] = IF ok THEN @ ELSE 500]
    /\ sv_pc' = [sv_pc EXCEPT ![r] = "Hijacked"]
    /\ owner' = [owner EXCEPT ![r] = "listener"]
    /\ UNCHANGED <<addr, closed, close_err, dialVars, observed, stale, upgrade,
                   verify, deadlines, http_served, accVars>>

\* conn, _, err := hj.Hijack(); if err != nil { http.Error(500); return }
\* On success the connection passes from the webserver to the listener.
Hijack(r, ok) ==
    /\ sv_pc[r] = "Hijack"
    /\ IF ~ok
          THEN /\ Reject(r, 500, "RejectedHijackFailed")
               /\ UNCHANGED owner
          ELSE /\ Pass(r, "Hijacked")
               /\ owner' = [owner EXCEPT ![r] = "listener"]
    /\ UNCHANGED <<addr, closed, close_err, dialVars, observed, stale, upgrade, verify, deadlines, http_served,
                   accVars>>

\* ClearDeadlines without the conn.SetDeadline call: only the write deadline
\* is cleared.
ClearDeadlines_WriteOnly(r) ==
    /\ sv_pc[r] = "Hijacked"
    /\ deadlines' = [deadlines EXCEPT ![r] = @ \ {"write"}]
    /\ Pass(r, "Handoff")
    /\ UNCHANGED <<addr, closed, close_err, dialVars, observed, stale, upgrade, verify, owner, http_served,
                   accVars>>

\* conn.SetDeadline(time.Time{}) clears the read and the write deadline;
\* conn.SetWriteDeadline(time.Time{}) clears the write deadline again.
\* The invocation then blocks in the send h.accepted <- conn.
ClearDeadlines(r) ==
    /\ sv_pc[r] = "Hijacked"
    /\ deadlines' = [deadlines EXCEPT ![r] = (@ \ {"read", "write"}) \ {"write"}]
    /\ Pass(r, "Handoff")
    /\ UNCHANGED <<addr, closed, close_err, dialVars, observed, stale, upgrade, verify, owner, http_served,
                   accVars>>

\* Accept with the closed check inverted (if !h.closed): on an open listener
\* it returns the error and never receives.
Accept_InvertedCheck(a) ==
    /\ acc_pc[a] = "idle"
    /\ calls[a] < MaxAcceptCalls
    /\ calls' = [calls EXCEPT ![a] = @ + 1]
    /\ \E c \in ReadClosed(a \in observed) :
          /\ stale' = [stale EXCEPT !.acc = IF closed /\ ~c THEN @ \cup {a}
                                                            ELSE @ \ {a}]
          /\ IF ~c THEN /\ acc_ret' = [acc_ret EXCEPT ![a] = "closed"]
                        /\ UNCHANGED <<acc_pc, http_accepted, observed>>
                   ELSE /\ acc_pc' = [acc_pc EXCEPT ![a] = "recv"]
                        /\ acc_ret' = [acc_ret EXCEPT ![a] = "none"]
                        /\ http_accepted' = http_accepted + 1
                        /\ observed' = observed \cup {a}
    /\ UNCHANGED <<addr, closed, close_err, dialVars, srvVars, returned>>

\* Goroutine a calls Accept:
\* if h.closed { return nil, errors.New("Server is shutting down") }
\* stats.CounterInc("http_accepted", 1); then block in <-h.accepted.
Accept(a) ==
    /\ acc_pc[a] = "idle"
    /\ calls[a] < MaxAcceptCalls
    /\ calls' = [calls EXCEPT ![a] = @ + 1]
    /\ \E c \in ReadClosed(a \in observed) :
          /\ stale' = [stale EXCEPT !.acc = IF closed /\ ~c THEN @ \cup {a}
                                                            ELSE @ \ {a}]
          /\ IF c THEN /\ acc_ret' = [acc_ret EXCEPT ![a] = "closed"]
                       /\ observed' = observed \cup {a}
                       /\ UNCHANGED <<acc_pc, http_accepted>>
                  ELSE /\ acc_pc' = [acc_pc EXCEPT ![a] = "recv"]
                       /\ acc_ret' = [acc_ret EXCEPT ![a] = "none"]
                       /\ http_accepted' = http_accepted + 1
                       /\ UNCHANGED observed
    /\ UNCHANGED <<addr, closed, close_err, dialVars, srvVars, returned>>

\* The handoff with an Accept that re-reads h.closed after the receive and
\* returns the closed error, dropping the connection it received.
Handoff_RecheckClosed(r, a) ==
    /\ sv_pc[r] = "Handoff"
    /\ acc_pc[a] = "recv"
    /\ sv_pc' = [sv_pc EXCEPT ![r] = "HandedOff"]
    /\ acc_pc' = [acc_pc EXCEPT ![a] = "idle"]
    /\ IF closed
          THEN /\ acc_ret' = [acc_ret EXCEPT ![a] = "closed"]
               /\ owner' = [owner EXCEPT ![r] = "closed"]
               /\ UNCHANGED returned
          ELSE /\ acc_ret' = [acc_ret EXCEPT ![a] = "conn"]
               /\ owner' = [owner EXCEPT ![r] = a]
               /\ returned' = [returned EXCEPT ![a] = Append(@, r)]
    /\ UNCHANGED <<addr, closed, close_err, dialVars, observed, stale, upgrade,
                   status, verify, deadlines, http_served, calls, http_accepted>>

\* The handoff on a buffered channel (make(chan net.Conn, n)): the send
\* completes with no receiver and the connection waits in the channel.
Handoff_Buffered(r, a) ==
    /\ sv_pc[r] = "Handoff"
    /\ sv_pc' = [sv_pc EXCEPT ![r] = "HandedOff"]
    /\ owner' = [owner EXCEPT ![r] = "channel"]
    /\ UNCHANGED <<addr, closed, close_err, dialVars, observed, stale, upgrade,
                   status, verify, deadlines, http_served, accVars>>

\* The rendezvous on the unbuffered channel h.accepted: the send
\* h.accepted <- conn of invocation r meets the receive <-h.accepted of
\* goroutine a, whose Accept call returns the connection.
Handoff(r, a) ==
    /\ sv_pc[r] = "Handoff"
    /\ acc_pc[a] = "recv"
    /\ sv_pc' = [sv_pc EXCEPT ![r] = "HandedOff"]
    /\ owner' = [owner EXCEPT ![r] = a]
    /\ acc_pc' = [acc_pc EXCEPT ![a] = "idle"]
    /\ acc_ret' = [acc_ret EXCEPT ![a] = "conn"]
    /\ returned' = [returned EXCEPT ![a] = Append(@, r)]
    /\ UNCHANGED <<addr, closed, close_err, dialVars, observed, stale, upgrade, status, verify, deadlines,
                   http_served, calls, http_accepted>>

\* Peer addresses are sequences of characters: "h" stands for any character
\* of a host name or port number, ":" is the port separator.
Chars == {"h", ":"}
Addresses == UNION {[1..n -> Chars] : n \in 0..MaxAddrLen}

\* strings.IndexRune(s, c): the zero-based index of the first c in s, -1 if
\* there is none.
IndexRune(s, c) ==
    IF \E i \in 1..Len(s) : s[i] = c
        THEN (CHOOSE i \in 1..Len(s) :
                 s[i] = c /\ \A j \in 1..(i - 1) : s[j] # c) - 1
        ELSE -1

\* The literal ":4934".
DefaultPort == <<":", "4", "9", "3", "4">>

\* DialAddress with the test written as <= 0: an address that starts with
\* the separator gets a second port.
DialAddress_LeadingColon(a) ==
    IF IndexRune(a, ":") <= 0 THEN a \o DefaultPort ELSE a

\* if strings.IndexRune(address, ':') < 0 { address += ":4934" }
DialAddress(a) == IF IndexRune(a, ":") < 0 THEN a \o DefaultPort ELSE a

\* Dial(address, timeout) up to the connection attempt: the port is
\* defaulted, stats.CounterInc("http_dialed", 1), logger.Debug.
Dial(d, a) ==
    /\ dial_pc[d] = "idle"
    /\ dial_pc' = [dial_pc EXCEPT ![d] = "tls"]
    /\ address' = [address EXCEPT ![d] = a]
    /\ target' = [target EXCEPT ![d] = DialAddress(a)]
    /\ http_dialed' = http_dialed + 1
    /\ UNCHANGED <<addr, closed, close_err, observed, stale, srvVars, accVars,
                   attempts, dconn, dial_ret, http_failed>>

\* DialTLS without the stats.CounterInc("http_failed", 1) on its error path.
DialTLS_NoFailCount(d, tcp, hs) ==
    /\ dial_pc[d] = "tls"
    /\ attempts' = [attempts EXCEPT ![d] = @ + 1]
    /\ IF tcp /\ hs
          THEN /\ dconn' = [dconn EXCEPT ![d] = "open"]
               /\ dial_pc' = [dial_pc EXCEPT ![d] = "write"]
               /\ UNCHANGED dial_ret
          ELSE /\ dconn' = [dconn EXCEPT ![d] = IF tcp THEN "closed" ELSE "none"]
               /\ dial_ret' = [dial_ret EXCEPT ![d] = "err"]
               /\ dial_pc' = [dial_pc EXCEPT ![d] = "done"]
    /\ UNCHANGED <<addr, closed, close_err, observed, stale, srvVars, accVars,
                   address, target, http_dialed, http_failed>>

\* conn, err = tls.DialWithDialer(&dial, "tcp", address, conf);
\* if err != nil { stats.CounterInc("http_failed", 1); return nil, err }
\* tcp: the TCP connection is established within the timeout; hs: the TLS
\* handshake succeeds.  tls.DialWithDialer closes the TCP connection itself
\* when the handshake fails and returns no connection.
DialTLS(d, tcp, hs) ==
    /\ dial_pc[d] = "tls"
    /\ attempts' = [attempts EXCEPT ![d] = @ + 1]
    /\ IF tcp /\ hs
          THEN /\ dconn' = [dconn EXCEPT ![d] = "open"]
               /\ dial_pc' = [dial_pc EXCEPT ![d] = "write"]
               /\ UNCHANGED <<dial_ret, http_failed>>
          ELSE /\ dconn' = [dconn EXCEPT ![d] = IF tcp THEN "closed" ELSE "none"]
               /\ http_failed' = http_failed + 1
               /\ dial_ret' = [dial_ret EXCEPT ![d] = "err"]
               /\ dial_pc' = [dial_pc EXCEPT ![d] = "done"]
    /\ UNCHANGED <<addr, closed, close_err, observed, stale, srvVars, accVars,
                   address, target, http_dialed>>

\* DialWrite without the conn.Close() on a failed write.
DialWrite_NoClose(d, ok) ==
    /\ dial_pc[d] = "write"
    /\ dial_pc' = [dial_pc EXCEPT ![d] = "done"]
    /\ IF ok
          THEN /\ dial_ret' = [dial_ret EXCEPT ![d] = "conn"]
               /\ UNCHANGED http_failed
          ELSE /\ http_failed' = http_failed + 1
               /\ dial_ret' = [dial_ret EXCEPT ![d] = "err"]
    /\ UNCHANGED <<addr, closed, close_err, observed, stale, srvVars, accVars,
                   address, target, attempts, dconn, http_dialed>>

\* _, err = conn.Write([]byte(open));
\* if err != nil { conn.Close(); stats.CounterInc("http_failed", 1); return nil, err }
\* return conn, nil
DialWrite(d, ok) ==
    /\ dial_pc[d] = "write"
    /\ dial_pc' = [dial_pc EXCEPT ![d] = "done"]
    /\ IF ok
          THEN /\ dial_ret' = [dial_ret EXCEPT ![d] = "conn"]
               /\ UNCHANGED <<dconn, http_failed>>
          ELSE /\ dconn' = [dconn EXCEPT ![d] = "closed"]
               /\ http_failed' = http_failed + 1
               /\ dial_ret' = [dial_ret EXCEPT ![d] = "err"]
    /\ UNCHANGED <<addr, closed, close_err, observed, stale, srvVars, accVars,
                   address, target, attempts, http_dialed>>

Next ==
    \/ Close
    \/ \E r \in Requests, u \in Upgrades : ServeHTTP(r, u)
    \/ \E r \in Requests : ProtocolCheck(r)
    \/ \E r \in Requests, ok \in BOOLEAN : IdentityCheck(r, ok)
    \/ \E r \in Requests, ok \in BOOLEAN : HijackCheck(r, ok)
    \/ \E r \in Requests, ok \in BOOLEAN : Hijack(r, ok)
    \/ \E r \in Requests : ClearDeadlines(r)
    \/ \E a \in Acceptors : Accept(a)
    \/ \E r \in Requests, a \in Acceptors : Handoff(r, a)

Spec == Init /\ [][Next]_vars

\* The goroutine scheduler runs every goroutine that can take a step, and a
\* send and a receive that are both waiting on h.accepted meet.  Requests
\* arriving, Accept being called and Close being called are the callers'
\* choice and carry no fairness.
Fairness ==
    /\ \A r \in Requests : WF_vars(ProtocolCheck(r))
    /\ \A r \in Requests : WF_vars(\E ok \in BOOLEAN : IdentityCheck(r, ok))
    /\ \A r \in Requests : WF_vars(\E ok \in BOOLEAN : HijackCheck(r, ok))
    /\ \A r \in Requests : WF_vars(\E ok \in BOOLEAN : Hijack(r, ok))
    /\ \A r \in Requests : WF_vars(ClearDeadlines(r))
    /\ WF_vars(\E r \in Requests, a \in Acceptors : Handoff(r, a))

FairSpec == Spec /\ Fairness

\* The outbound side: Dial calls, with Close calls among them (Dial does not
\* look at h.closed).
DialNext ==
    \/ Close
    \/ \E d \in Dials, a \in Addresses : Dial(d, a)
    \/ \E d \in Dials, tcp \in BOOLEAN, hs \in BOOLEAN : DialTLS(d, tcp, hs)
    \/ \E d \in Dials, ok \in BOOLEAN : DialWrite(d, ok)

DialSpec == Init /\ [][DialNext]_vars

\* NumRequests fully valid requests (Upgrade: raft-0, verification succeeds,
\* the writer is a Hijacker, Hijack succeeds) and one goroutine calling
\* Accept NumRequests times in sequence; Close is never called.
PairedNext ==
    \/ \E r \in Requests : ServeHTTP(r, "raft-0")
    \/ \E r \in Requests : ProtocolCheck(r)
    \/ \E r \in Requests : IdentityCheck(r, TRUE)
    \/ \E r \in Requests : HijackCheck(r, TRUE)
    \/ \E r \in Requests : Hijack(r, TRUE)
    \/ \E r \in Requests : ClearDeadlines(r)
    \/ Accept("a1")
    \/ \E r \in Requests : Handoff(r, "a1")

PairedSpec == Init /\ [][PairedNext]_vars /\ WF_vars(PairedNext)

----------------------------------------------------------------------------
\* Number of Accept calls that returned connection r.
Delivered(r) ==
    Cardinality({x \in Acceptors \X (1..MaxAcceptCalls) :
                    /\ x[2] <= Len(returned[x[1]])
                    /\ returned[x[1]][x[2]] = r})

\* The connection of r has been hijacked: it left the webserver.
Hijacked(r) == owner[r] # "httpserver"

\* Every goroutine that calls Accept has observed h.closed = true and is
\* outside a call: each Accept call from now on returns the error.
NoMoreAccepts ==
    /\ closed
    /\ \A a \in Acceptors : acc_pc[a] = "idle" /\ a \in observed

\* C1: if Close is called while an Accept call is blocked on the handoff
\* channel (its closed check ran before Close did) and no ServeHTTP hands a
\* connection to it, the call eventually returns (the closed error); it does
\* not stay blocked forever.
C1_CloseUnblocksAccept ==
    \A a \in Acceptors :
        (acc_pc[a] = "recv" /\ closed /\ a \notin stale.acc)
            ~> (acc_pc[a] = "idle" /\ acc_ret[a] \in {"closed", "conn"})

\* C2: every hijacked connection is returned by exactly one Accept call: none
\* is returned twice, and none is left with the listener, neither returned
\* nor closed, once no Accept call can take it any more (ServeHTTP never
\* closes a connection, so a connection still owned by the listener is open).
\* The drop is stated for invocations whose closed check ran before Close.
C2_ExactlyOnce ==
    \A r \in Requests :
        /\ Delivered(r) <= 1
        /\ (owner[r] \in Acceptors) <=> (Delivered(r) = 1)
        /\ ~(owner[r] = "listener" /\ r \notin stale.srv /\ NoMoreAccepts)

\* C3: an Accept call that starts after a Close call has returned returns the
\* closed error, with no connection and without blocking on the channel.
C3_AcceptAfterClose ==
    [][\A a \in Acceptors :
          (closed /\ acc_pc[a] = "idle" /\ calls'[a] = calls[a] + 1)
              => (acc_pc'[a] = "idle" /\ acc_ret'[a] = "closed"
                  /\ returned'[a] = returned[a])]_vars

\* C4: a ServeHTTP invocation that starts after a Close call has returned
\* responds 503, whatever the Upgrade header and the CA's answer, and
\* performs no hijack and no handoff.
C4_ServeAfterClose ==
    [][\A r \in Requests :
          (closed /\ sv_pc[r] = "Idle" /\ sv_pc'[r] # "Idle")
              => (status'[r] = 503 /\ sv_pc'[r] = "RejectedClosed"
                  /\ ~Hijacked(r)')]_vars

\* C5: no ServeHTTP invocation pushes a connection into the handoff channel
\* at a point where the closed flag is already true, and in particular none
\* that passed its closed check before Close ran.
C5_NoPushAfterClose ==
    [][\A r \in Requests :
          (sv_pc[r] = "Handoff" /\ sv_pc'[r] = "HandedOff"
              /\ r \notin stale.srv /\ stale.acc = {}) => ~closed]_vars

\* C6: a ServeHTTP invocation blocked in its handoff step eventually leaves
\* it once Close has been called, even if no Accept call takes the connection.
C6_CloseUnblocksHandoff ==
    \A r \in Requests :
        (sv_pc[r] = "Handoff" /\ closed /\ r \notin stale.srv)
            ~> (sv_pc[r] # "Handoff")

\* C7: a connection is hijacked only after CA verification of its request
\* succeeded; a request whose verification fails gets 401 and its connection
\* is never hijacked nor handed off.
C7_VerifyBeforeHijack ==
    \A r \in Requests :
        /\ Hijacked(r) => verify[r] = "ok"
        /\ sv_pc[r] \in {"HijackCheck", "Hijack", "Hijacked", "Handoff",
                         "HandedOff"} => verify[r] = "ok"
        /\ verify[r] = "err" =>
              /\ status[r] = 401
              /\ sv_pc[r] = "RejectedAuth"
              /\ ~Hijacked(r)
              /\ Delivered(r) = 0

\* A request failed verification with 401 while another was hijacked.
C7_Witness ==
    \E r1, r2 \in Requests :
        /\ verify[r1] = "err" /\ status[r1] = 401
        /\ Hijacked(r2) /\ verify[r2] = "ok"

\* C8: on a listener read as open, a request whose Upgrade header is absent or
\* is not exactly raft-0 gets 400; CA verification is not called for it and
\* its connection is neither hijacked nor handed off.
C8_BadUpgrade400 ==
    \A r \in Requests :
        (upgrade[r] # "raft-0" /\ sv_pc[r] \notin {"Idle", "RejectedClosed"}) =>
            /\ sv_pc[r] \in {"ProtocolCheck", "RejectedProtocol"}
            /\ status[r] = (IF sv_pc[r] = "RejectedProtocol" THEN 400 ELSE 0)
            /\ verify[r] = "none"
            /\ ~Hijacked(r)
            /\ Delivered(r) = 0

\* A request with a near-miss token and one with no Upgrade header both got
\* 400 from an open listener.
C8_Witness ==
    /\ ~closed
    /\ \E r1, r2 \in Requests :
          /\ upgrade[r1] = "RAFT-0" /\ status[r1] = 400
          /\ upgrade[r2] = "" /\ status[r2] = 400

\* C9: the deadlines of a hijacked connection are cleared before it is pushed
\* into the handoff channel, so every connection an Accept call returns has
\* no read or write deadline set.
C9_DeadlinesCleared ==
    \A r \in Requests :
        (sv_pc[r] \in {"Handoff", "HandedOff"} \/ owner[r] \in Acceptors
            \/ Delivered(r) > 0) => deadlines[r] = {}

\* An Accept call returned a connection, with its deadlines cleared.
C9_Witness ==
    \E r \in Requests, a \in Acceptors :
        /\ owner[r] = a /\ acc_ret[a] = "conn"
        /\ Delivered(r) = 1 /\ deadlines[r] = {}

\* Every request was handed off and the sequential Accept calls returned
\* NumRequests pairwise distinct connections.
C10_Witness ==
    /\ \A r \in Requests : sv_pc[r] = "HandedOff" /\ owner[r] = "a1"
    /\ acc_pc["a1"] = "idle"
    /\ Len(returned["a1"]) = NumRequests
    /\ \A i, j \in 1..Len(returned["a1"]) :
          i # j => returned["a1"][i] # returned["a1"][j]

\* C10: with the listener never closed, NumRequests concurrent valid
\* ServeHTTP invocations and NumRequests sequential Accept calls all
\* terminate under fair scheduling: every Accept returns a connection, the
\* connections are pairwise distinct and every invocation reaches HandedOff.
C10_PairedTermination == <>[]C10_Witness

\* C11: the closed flag never reverts, no Close call returns an error, and a
\* Close call on a listener that is already closed changes nothing.
C11_CloseIdempotent ==
    [][/\ closed => closed'
       /\ close_err' \in {"none", "nil"}
       /\ closed' => close_err' = "nil"
       /\ (closed /\ Close) => UNCHANGED vars]_vars

\* The listener is closed, Close returned nil, and an Accept call and a
\* ServeHTTP invocation have run on the closed listener.
C11_Witness ==
    /\ closed /\ close_err = "nil"
    /\ \E a \in Acceptors : acc_ret[a] = "closed"
    /\ \E r \in Requests : status[r] = 503

\* C12: whenever Dial returns an error no connection it opened is still open,
\* and an error is never returned together with a connection.
C12_DialErrorNoLeak ==
    \A d \in Dials :
        /\ dial_ret[d] = "err" => (dconn[d] # "open" /\ dial_pc[d] = "done")
        /\ dial_ret[d] = "conn" => (dconn[d] = "open" /\ dial_pc[d] = "done")
        /\ dial_pc[d] = "done" => dial_ret[d] \in {"err", "conn"}

\* One Dial call failed in the write of the upgrade request, after its
\* connection was open, and one failed in the TLS dial.
C12_Witness ==
    \E d1, d2 \in Dials :
        /\ dial_ret[d1] = "err" /\ dconn[d1] = "closed"
        /\ dial_ret[d2] = "err" /\ dconn[d2] = "none"

\* Some character of the address is the port separator.
HasSeparator(a) == \E i \in 1..Len(a) : a[i] = ":"

\* C13: an address with no ':' is dialled with ":4934" appended, an address
\* that carries one is dialled unchanged.
C13_DefaultPort ==
    \A d \in Dials :
        dial_pc[d] # "idle" =>
            /\ ~HasSeparator(address[d]) => target[d] = address[d] \o DefaultPort
            /\ HasSeparator(address[d]) => target[d] = address[d]

\* Dial was called with a bare host, with a host and port, and with an
\* address that starts with the separator.
C13_Witness ==
    \E d1, d2 \in Dials :
        /\ address[d1] = <<"h">> /\ target[d1] = <<"h", ":", "4", "9", "3", "4">>
        /\ address[d2] = <<":", "h">> /\ target[d2] = <<":", "h">>

\* The invocation ended in one of the two hijack failures.
HijackRejected(r) == sv_pc[r] \in {"RejectedNoHijack", "RejectedHijackFailed"}

\* C14: a request that passes the protocol check and CA verification but
\* whose writer is no Hijacker, or whose Hijack call fails, gets 500; no
\* connection is taken or pushed for it, and the step leaves the listener
\* open as it was.
C14_HijackFailure500 ==
    /\ [](\A r \in Requests :
             /\ status[r] = 500 <=> HijackRejected(r)
             /\ HijackRejected(r) =>
                   /\ upgrade[r] = "raft-0" /\ verify[r] = "ok"
                   /\ owner[r] = "httpserver"
                   /\ Delivered(r) = 0)
    /\ [][\A r \in Requests :
             (~HijackRejected(r) /\ HijackRejected(r)') =>
                 /\ sv_pc[r] \in {"HijackCheck", "Hijack"}
                 /\ closed' = closed
                 /\ accVars' = accVars]_vars

\* One request ended in 500 on an open listener and a later one was served
\* and handed off.
C14_Witness ==
    /\ ~closed
    /\ \E r1, r2 \in Requests :
          /\ HijackRejected(r1) /\ status[r1] = 500
          /\ sv_pc[r2] = "HandedOff"

\* Number of connections the Accept calls have returned.
NumReturned ==
    Cardinality({x \in Acceptors \X (1..MaxAcceptCalls) :
                    x[2] <= Len(returned[x[1]])})

\* Number of ServeHTTP invocations whose send on h.accepted has completed.
NumHandedOff == Cardinality({r \in Requests : sv_pc[r] = "HandedOff"})

\* C15: http_accepted equals the number of connections Accept calls have
\* returned: it is not incremented for a call that returns the closed error
\* or that is still blocked, and never exceeds the number of connections
\* handed off by ServeHTTP.
C15_AcceptedCountsReturned ==
    /\ http_accepted = NumReturned
    /\ http_accepted <= NumHandedOff

\* No Dial call is between its entry and its return.
NoDialInFlight == \A d \in Dials : dial_pc[d] \in {"idle", "done"}

\* Number of Dial calls that returned `ret`.
NumDialRet(ret) == Cardinality({d \in Dials : dial_ret[d] = ret})

\* C16 as stated: each Dial call increments exactly one outcome counter, so
\* after any sequence of Dial calls http_dialed is the number of successful
\* dials and http_failed the number of failed ones.
C16_OneOutcomeCounter ==
    NoDialInFlight =>
        /\ http_dialed = NumDialRet("conn")
        /\ http_failed = NumDialRet("err")

\* C16 as amended: each Dial call makes exactly one connection attempt and
\* increments http_dialed exactly once, before the attempt and whatever its
\* outcome; it increments http_failed exactly once if and only if it returns
\* an error.  http_dialed is the number of Dial calls made, http_failed the
\* number that failed.
C16_DialedCountsCalls ==
    /\ http_dialed = Cardinality({d \in Dials : dial_pc[d] # "idle"})
    /\ http_failed = NumDialRet("err")
    /\ \A d \in Dials :
          attempts[d] = (IF dial_pc[d] \in {"idle", "tls"} THEN 0 ELSE 1)

\* One Dial call returned a connection and one returned an error: both are
\* counted in http_dialed, the failed one in http_failed.
C16_Witness ==
    /\ NoDialInFlight
    /\ NumDialRet("conn") = 1 /\ NumDialRet("err") = 1
    /\ http_dialed = 2 /\ http_failed = 1

\* C17: every read of h.closed by Accept and ServeHTTP is ordered with the
\* write by Close, so no read made after the write misses it.
C17_NoRacyRead == stale.srv = {} /\ stale.acc = {}

\* The terminal states of a rejected ServeHTTP invocation.
RejectedStates ==
    {"RejectedClosed", "RejectedProtocol", "RejectedAuth", "RejectedNoHijack",
     "RejectedHijackFailed"}

\* C18: the step in which a ServeHTTP invocation is rejected (503, 400, 401
\* or 500) changes nothing of the listener but http_served: the closed flag,
\* the local address, the connections, the Accept goroutines and every other
\* invocation are as before.
C18_RejectionFrame ==
    [][\A r \in Requests :
          (sv_pc[r] \notin RejectedStates /\ sv_pc'[r] \in RejectedStates) =>
              /\ status'[r] \in {503, 400, 401, 500}
              /\ closed' = closed /\ close_err' = close_err /\ addr' = addr
              /\ observed' = observed /\ stale'.acc = stale.acc
              /\ accVars' = accVars /\ dialVars' = dialVars
              /\ owner' = owner /\ deadlines' = deadlines
              /\ http_served' \in {http_served, http_served + 1}
              /\ \A q \in Requests \ {r} :
                    /\ sv_pc'[q] = sv_pc[q] /\ status'[q] = status[q]
                    /\ verify'[q] = verify[q] /\ upgrade'[q] = upgrade[q]]_vars

\* A request was rejected while an Accept call was blocked and another
\* invocation was waiting in its handoff, and the two can still meet.
C18_Witness ==
    \E r, q \in Requests, a \in Acceptors :
        /\ sv_pc[r] \in RejectedStates
        /\ sv_pc[q] = "Handoff"
        /\ acc_pc[a] = "recv"

C20_Rendezvous ==
    /\ NumHandedOff = NumReturned
    /\ \A r \in Requests :
          /\ owner[r] \in {"httpserver", "listener"} \cup Acceptors
          /\ sv_pc[r] = "HandedOff" <=> owner[r] \in Acceptors
          /\ sv_pc[r] = "HandedOff" <=> Delivered(r) = 1
          /\ owner[r] = "listener" => sv_pc[r] \in {"Hijacked", "Handoff"}

\* One connection has been handed to an Accept caller while another
\* invocation waits in its send with no receiver.
C20_Witness ==
    \E r, q \in Requests :
        /\ sv_pc[r] = "HandedOff" /\ owner[r] \in Acceptors
        /\ sv_pc[q] = "Handoff"
        /\ \A a \in Acceptors : acc_pc[a] = "idle"

====
